---- MODULE Spec2Model ----
(***************************************************************************)
(* Model of the auto-approve action (src/index.ts, and its compiled twin   *)
(* src/index.js): the configuration parsers parseBool and parseList, the   *)
(* per-commit predicate isAllowedBotCommit and the gate sequence of run(). *)
(* Strings are TLA+ strings, taken apart character by character, so that   *)
(* toLowerCase, trim, split and endsWith do what the JavaScript does.      *)
(***************************************************************************)
EXTENDS Integers, Sequences, FiniteSets, TLC

VARIABLES
  env,                  \* the action's inputs: input name -> raw string ("" when absent)
  payload,              \* github.context.payload.pull_request: <<>> or <<pr>>
  remote,               \* the commits the pulls.listCommits endpoint holds for the PR
  pc,                   \* position of run()
  allowedBotLogins,     \* parseList(core.getInput('allowed-bot-logins'))
  requirePrAuthorIsBot, \* parseBool(core.getInput('require-pr-author-is-bot'), true)
  skipDrafts,           \* parseBool(core.getInput('skip-drafts'), true)
  skipForks,            \* parseBool(core.getInput('skip-forks'), true)
  commits,              \* the array octokit.paginate resolved to
  fetched,              \* outcome of the paginate call: "no", "ok", "error"
  badCommit,            \* commits.find(...): <<>> or <<commit>>
  decision,             \* which exit of run() was taken ("none" while running)
  info,                 \* the core.info lines, in order
  reviews,              \* the pulls.createReview calls, in order
  submitted,            \* outcome of the createReview call: "no", "ok", "error"
  failed,               \* the core.setFailed messages, in order
  pbInput,              \* a parseBool call: its input, <<>> (undefined) or <<string>>
  pbDefault,            \* a parseBool call: its defaultValue
  pbResult,             \* a parseBool call: <<>> before the call, <<result>> after
  cCommit,              \* an isAllowedBotCommit call: its commit
  cResult               \* an isAllowedBotCommit call: <<>> before, <<result>> after

vars == <<env, payload, remote, pc, allowedBotLogins, requirePrAuthorIsBot,
          skipDrafts, skipForks, commits, fetched, badCommit, decision, info,
          reviews, submitted, failed, pbInput, pbDefault, pbResult, cCommit,
          cResult>>

runVars == <<env, payload, remote, pc, allowedBotLogins, requirePrAuthorIsBot,
             skipDrafts, skipForks, commits, fetched, badCommit, decision,
             info, reviews, submitted, failed>>

pbVars == <<pbInput, pbDefault, pbResult>>

cVars == <<cCommit, cResult>>

-----------------------------------------------------------------------------
(* Bounds *)

MaxCommits == 2

-----------------------------------------------------------------------------
(* JavaScript string and array primitives *)

CharAt(s, i) == SubSeq(s, i, i)

Rest(s) == SubSeq(s, 2, Len(s))

UpperCase == "ABCDEFGHIJKLMNOPQRSTUVWXYZ"

LowerCase == "abcdefghijklmnopqrstuvwxyz"

LowerChar(ch) ==
  IF \E i \in 1..26 : CharAt(UpperCase, i) = ch
  THEN CharAt(LowerCase, CHOOSE i \in 1..26 : CharAt(UpperCase, i) = ch)
  ELSE ch

RECURSIVE toLowerCase(_)
toLowerCase(s) ==
  IF s = "" THEN "" ELSE LowerChar(CharAt(s, 1)) \o toLowerCase(Rest(s))

WhiteSpace == {" ", "\t", "\n", "\r"}

RECURSIVE trimStart(_)
trimStart(s) ==
  IF s # "" /\ CharAt(s, 1) \in WhiteSpace THEN trimStart(Rest(s)) ELSE s

RECURSIVE trimEnd(_)
trimEnd(s) ==
  IF s # "" /\ CharAt(s, Len(s)) \in WhiteSpace
  THEN trimEnd(SubSeq(s, 1, Len(s) - 1))
  ELSE s

trim(s) == trimEnd(trimStart(s))

RECURSIVE split(_, _)
split(s, sep) ==
  IF \E i \in 1..Len(s) : CharAt(s, i) = sep
  THEN LET i == CHOOSE k \in 1..Len(s) :
                  /\ CharAt(s, k) = sep
                  /\ \A j \in 1..(k - 1) : CharAt(s, j) # sep
       IN  <<SubSeq(s, 1, i - 1)>> \o split(SubSeq(s, i + 1, Len(s)), sep)
  ELSE <<s>>

includes(arr, x) == \E i \in DOMAIN arr : arr[i] = x

endsWith(s, t) ==
  /\ Len(t) <= Len(s)
  /\ SubSeq(s, Len(s) - Len(t) + 1, Len(s)) = t

RECURSIVE join(_, _)
join(arr, sep) ==
  IF arr = <<>> THEN ""
  ELSE IF Len(arr) = 1 THEN arr[1]
  ELSE arr[1] \o sep \o join(Tail(arr), sep)

\* x?.y ?? '' (index.ts) and x?.y || '' (index.js): a missing value reads as ''
OrEmpty(opt) == IF opt = <<>> THEN "" ELSE opt[1]

-----------------------------------------------------------------------------
(* Configuration parsers *)

\* parseBool without the trim()
parseBoolNoTrim(input, defaultValue) ==
  IF input = <<>> \/ input[1] = "" THEN defaultValue
  ELSE LET v == toLowerCase(input[1])
       IN  IF v \in {"true", "1", "yes", "y"} THEN TRUE
           ELSE IF v \in {"false", "0", "no", "n"} THEN FALSE
           ELSE defaultValue

parseBool(input, defaultValue) ==
  IF input = <<>> \/ input[1] = "" THEN defaultValue
  ELSE LET v == trim(toLowerCase(input[1]))
       IN  IF v \in {"true", "1", "yes", "y"} THEN TRUE
           ELSE IF v \in {"false", "0", "no", "n"} THEN FALSE
           ELSE defaultValue

RECURSIVE mapTrim(_)
mapTrim(arr) ==
  IF arr = <<>> THEN <<>> ELSE <<trim(Head(arr))>> \o mapTrim(Tail(arr))

filterBoolean(arr) == SelectSeq(arr, LAMBDA t : t # "")

parseList(input) ==
  IF input = <<>> \/ input[1] = "" THEN <<>>
  ELSE filterBoolean(mapTrim(split(input[1], ",")))

\* core.getInput(name): the raw value, trimmed; '' when the input is absent
getInput(name) == trim(env[name])

\* core.getInput(name, { required: true }) throws when the raw value is empty
MissingRequired(name) == env[name] = ""

-----------------------------------------------------------------------------
(* The per-commit predicate *)

NoReplySuffix == "@users.noreply.github.com"

\* isAllowedBotCommit with every() for some() in the name match
isAllowedBotCommitEvery(c, bots) ==
  LET login == OrEmpty(c.author)
      name  == OrEmpty(c.name)
      email == OrEmpty(c.email)
  IN  IF includes(bots, login) THEN TRUE
      ELSE IF \A i \in DOMAIN bots : name = bots[i] THEN TRUE
      ELSE IF /\ email # ""
              /\ \E i \in DOMAIN bots : endsWith(email, bots[i] \o NoReplySuffix)
           THEN TRUE
      ELSE FALSE

\* isAllowedBotCommit with includes() for endsWith() in the email match
isAllowedBotCommitIncludes(c, bots) ==
  LET login == OrEmpty(c.author)
      name  == OrEmpty(c.name)
      email == OrEmpty(c.email)
  IN  IF includes(bots, login) THEN TRUE
      ELSE IF \E i \in DOMAIN bots : name = bots[i] THEN TRUE
      ELSE IF /\ email # ""
              /\ \E i \in DOMAIN bots :
                   \E k \in 1..Len(email) :
                     \E m \in k..Len(email) :
                       SubSeq(email, k, m) = bots[i] \o NoReplySuffix
           THEN TRUE
      ELSE FALSE

isAllowedBotCommit(c, bots) ==
  LET login == OrEmpty(c.author)
      name  == OrEmpty(c.name)
      email == OrEmpty(c.email)
  IN  IF includes(bots, login) THEN TRUE
      ELSE IF \E i \in DOMAIN bots : name = bots[i] THEN TRUE
      ELSE IF /\ email # ""
              /\ \E i \in DOMAIN bots : endsWith(email, bots[i] \o NoReplySuffix)
           THEN TRUE
      ELSE FALSE

\* find that keeps the last match instead of the first
RECURSIVE findLast(_, _)
findLast(arr, bots) ==
  IF arr = <<>> THEN <<>>
  ELSE IF ~isAllowedBotCommit(arr[Len(arr)], bots) THEN <<arr[Len(arr)]>>
  ELSE findLast(SubSeq(arr, 1, Len(arr) - 1), bots)

\* commits.find((c) => !isAllowedBotCommit(c)): the first such commit, or none
RECURSIVE find(_, _)
find(arr, bots) ==
  IF arr = <<>> THEN <<>>
  ELSE IF ~isAllowedBotCommit(Head(arr), bots) THEN <<Head(arr)>>
  ELSE find(Tail(arr), bots)

-----------------------------------------------------------------------------
(* The inputs of a run *)

InputNames ==
  {"github-token", "allowed-bot-logins", "require-pr-author-is-bot",
   "skip-drafts", "skip-forks"}

Env(token, logins, requireAuthor, drafts, forks) ==
  [n \in InputNames |->
     CASE n = "github-token" -> token
       [] n = "allowed-bot-logins" -> logins
       [] n = "require-pr-author-is-bot" -> requireAuthor
       [] n = "skip-drafts" -> drafts
       [] n = "skip-forks" -> forks]

Tokens == {"", "ghs_token"}

LoginLists == {"", " dependabot[bot], renovate[bot] ,", " , ,"}

SwitchRaws == {"", "false"}

PrNumbers == {7, 42}

PrLogins == {<<>>, <<"dependabot[bot]">>, <<"human-dev">>}

PullRequests ==
  [number : PrNumbers, draft : BOOLEAN, fork : BOOLEAN, user : PrLogins]

Payloads == {<<>>} \cup {<<p>> : p \in PullRequests}

Commit(sha, author, name, email) ==
  [sha |-> sha, author |-> author, name |-> name, email |-> email]

RunCommits ==
  { Commit("a1", <<"dependabot[bot]">>, <<"dependabot[bot]">>,
           <<"49699333+dependabot[bot]@users.noreply.github.com">>),
    Commit("b2", <<"human-dev">>, <<"Human Dev">>, <<"human@example.com">>),
    Commit("c3", <<>>, <<"GitHub">>, <<"renovate[bot]@users.noreply.github.com">>),
    Commit("d4", <<>>, <<>>, <<>>) }

RECURSIVE SeqsUpTo(_, _)
SeqsUpTo(S, n) ==
  IF n = 0 THEN {<<>>}
  ELSE LET shorter == SeqsUpTo(S, n - 1)
       IN  shorter \cup {Append(q, x) : q \in shorter, x \in S}

ApiErrors == {"Bad credentials", "Resource not accessible by integration"}

IdleCommit == Commit("", <<>>, <<>>, <<>>)

RunIdle ==
  /\ pc = "start"
  /\ allowedBotLogins = <<>>
  /\ requirePrAuthorIsBot = TRUE
  /\ skipDrafts = TRUE
  /\ skipForks = TRUE
  /\ commits = <<>>
  /\ fetched = "no"
  /\ badCommit = <<>>
  /\ decision = "none"
  /\ info = <<>>
  /\ reviews = <<>>
  /\ submitted = "no"
  /\ failed = <<>>

CallsIdle ==
  /\ pbInput = <<>>
  /\ pbDefault = TRUE
  /\ pbResult = <<>>
  /\ cCommit = IdleCommit
  /\ cResult = <<>>

Init ==
  /\ \E t \in Tokens, l \in LoginLists, r \in SwitchRaws, d \in SwitchRaws,
        f \in SwitchRaws : env = Env(t, l, r, d, f)
  /\ payload \in Payloads
  /\ remote \in SeqsUpTo(RunCommits, MaxCommits)
  /\ RunIdle
  /\ CallsIdle

-----------------------------------------------------------------------------
(* run() *)

\* run() with the fork gate written before the draft gate
ThenForkFirst ==
  [start |-> "checkPr", checkPr |-> "forkGate", forkGate |-> "draftGate",
   draftGate |-> "authorGate", authorGate |-> "listCommits",
   listCommits |-> "emptyGate", emptyGate |-> "scan", scan |-> "createReview",
   createReview |-> "done"]

\* The order of the statements of run()
Then ==
  [start |-> "checkPr", checkPr |-> "draftGate", draftGate |-> "forkGate",
   forkGate |-> "authorGate", authorGate |-> "listCommits",
   listCommits |-> "emptyGate", emptyGate |-> "scan", scan |-> "createReview",
   createReview |-> "done"]

\* a catch that swallows the error
CatchSwallows(message) ==
  /\ failed' = failed
  /\ pc' = "done"

\* catch (error) { core.setFailed(error.message) }
Catch(message) ==
  /\ failed' = Append(failed, message)
  /\ pc' = "done"

\* core.info(line); return;
Return(exit, line) ==
  /\ decision' = exit
  /\ info' = Append(info, line)
  /\ pc' = "done"

ReviewBody ==
  "Auto-approved: all commits on this PR were authored by allowed bots."

GetInputs ==
  /\ pc = "start"
  /\ IF MissingRequired("github-token")
     THEN /\ Catch("Input required and not supplied: github-token")
          /\ UNCHANGED <<allowedBotLogins, requirePrAuthorIsBot, skipDrafts,
                         skipForks>>
     ELSE /\ allowedBotLogins' = parseList(<<getInput("allowed-bot-logins")>>)
          /\ requirePrAuthorIsBot' =
               parseBool(<<getInput("require-pr-author-is-bot")>>, TRUE)
          /\ skipDrafts' = parseBool(<<getInput("skip-drafts")>>, TRUE)
          /\ skipForks' = parseBool(<<getInput("skip-forks")>>, TRUE)
          /\ pc' = Then[pc]
          /\ UNCHANGED failed
  /\ UNCHANGED <<env, payload, remote, commits, fetched, badCommit, decision,
                 info, reviews, submitted>>
  /\ UNCHANGED <<pbVars, cVars>>

CheckPullRequest ==
  /\ pc = "checkPr"
  /\ IF payload = <<>>
     THEN Return("NoPullRequest", "No pull_request in context; exiting.")
     ELSE /\ pc' = Then[pc]
          /\ UNCHANGED <<decision, info>>
  /\ UNCHANGED <<env, payload, remote, allowedBotLogins, requirePrAuthorIsBot,
                 skipDrafts, skipForks, commits, fetched, badCommit, reviews,
                 submitted, failed>>
  /\ UNCHANGED <<pbVars, cVars>>

DraftGate ==
  /\ pc = "draftGate"
  /\ IF skipDrafts /\ payload[1].draft
     THEN Return("SkipDraft", "PR is a draft; skipping auto-approval.")
     ELSE /\ pc' = Then[pc]
          /\ UNCHANGED <<decision, info>>
  /\ UNCHANGED <<env, payload, remote, allowedBotLogins, requirePrAuthorIsBot,
                 skipDrafts, skipForks, commits, fetched, badCommit, reviews,
                 submitted, failed>>
  /\ UNCHANGED <<pbVars, cVars>>

ForkGate ==
  /\ pc = "forkGate"
  /\ IF skipForks /\ payload[1].fork
     THEN Return("SkipFork", "PR is from a fork; skipping auto-approval.")
     ELSE /\ pc' = Then[pc]
          /\ UNCHANGED <<decision, info>>
  /\ UNCHANGED <<env, payload, remote, allowedBotLogins, requirePrAuthorIsBot,
                 skipDrafts, skipForks, commits, fetched, badCommit, reviews,
                 submitted, failed>>
  /\ UNCHANGED <<pbVars, cVars>>

\* the author gate without its return
AuthorGateFallsThrough ==
  /\ pc = "authorGate"
  /\ LET authorLogin == OrEmpty(payload[1].user)
     IN  IF requirePrAuthorIsBot /\ ~includes(allowedBotLogins, authorLogin)
         THEN info' = Append(info, "PR author " \o authorLogin
                               \o " is not in allowed-bot-logins; skipping.")
         ELSE UNCHANGED info
  /\ pc' = Then[pc]
  /\ UNCHANGED <<env, payload, remote, allowedBotLogins, requirePrAuthorIsBot,
                 skipDrafts, skipForks, commits, fetched, badCommit, decision,
                 reviews, submitted, failed>>
  /\ UNCHANGED <<pbVars, cVars>>

AuthorGate ==
  /\ pc = "authorGate"
  /\ LET authorLogin == OrEmpty(payload[1].user)
     IN  IF requirePrAuthorIsBot /\ ~includes(allowedBotLogins, authorLogin)
         THEN Return("SkipUntrustedAuthor",
                     "PR author " \o authorLogin
                       \o " is not in allowed-bot-logins; skipping.")
         ELSE /\ pc' = Then[pc]
              /\ UNCHANGED <<decision, info>>
  /\ UNCHANGED <<env, payload, remote, allowedBotLogins, requirePrAuthorIsBot,
                 skipDrafts, skipForks, commits, fetched, badCommit, reviews,
                 submitted, failed>>
  /\ UNCHANGED <<pbVars, cVars>>

\* await octokit.paginate(octokit.rest.pulls.listCommits, ...): resolves to
\* every commit of the PR, or rejects
ListCommits ==
  /\ pc = "listCommits"
  /\ \/ /\ commits' = remote
        /\ fetched' = "ok"
        /\ pc' = Then[pc]
        /\ UNCHANGED failed
     \/ /\ \E message \in ApiErrors : Catch(message)
        /\ fetched' = "error"
        /\ UNCHANGED commits
  /\ UNCHANGED <<env, payload, remote, allowedBotLogins, requirePrAuthorIsBot,
                 skipDrafts, skipForks, badCommit, decision, info, reviews,
                 submitted>>
  /\ UNCHANGED <<pbVars, cVars>>

\* run() without the empty-list check
EmptyGateFallsThrough ==
  /\ pc = "emptyGate"
  /\ pc' = Then[pc]
  /\ UNCHANGED <<env, payload, remote, allowedBotLogins, requirePrAuthorIsBot,
                 skipDrafts, skipForks, commits, fetched, badCommit, decision,
                 info, reviews, submitted, failed>>
  /\ UNCHANGED <<pbVars, cVars>>

EmptyGate ==
  /\ pc = "emptyGate"
  /\ IF Len(commits) = 0
     THEN Return("SkipEmptyCommitList", "No commits on this PR; skipping.")
     ELSE /\ pc' = Then[pc]
          /\ UNCHANGED <<decision, info>>
  /\ UNCHANGED <<env, payload, remote, allowedBotLogins, requirePrAuthorIsBot,
                 skipDrafts, skipForks, commits, fetched, badCommit, reviews,
                 submitted, failed>>
  /\ UNCHANGED <<pbVars, cVars>>

ScanCommits ==
  /\ pc = "scan"
  /\ badCommit' = find(commits, allowedBotLogins)
  /\ IF badCommit' # <<>>
     THEN Return("SkipUntrustedCommit",
                 "Found commit not authored by allowed bots ("
                   \o badCommit'[1].sha \o "); not auto-approving.")
     ELSE /\ info' = Append(info,
                 "All " \o ToString(Len(commits))
                   \o " commit(s) are from allowed bots ["
                   \o join(allowedBotLogins, ", ")
                   \o "]; creating approval review.")
          /\ decision' = "Approve"
          /\ pc' = Then[pc]
  /\ UNCHANGED <<env, payload, remote, allowedBotLogins, requirePrAuthorIsBot,
                 skipDrafts, skipForks, commits, fetched, reviews, submitted,
                 failed>>
  /\ UNCHANGED <<pbVars, cVars>>

\* createReview with event COMMENT
CreateReviewComment ==
  /\ pc = "createReview"
  /\ reviews' = Append(reviews,
       [pull_number |-> payload[1].number, event |-> "COMMENT",
        body |-> ReviewBody])
  /\ \/ /\ submitted' = "ok"
        /\ pc' = Then[pc]
        /\ UNCHANGED failed
     \/ /\ \E message \in ApiErrors : Catch(message)
        /\ submitted' = "error"
  /\ UNCHANGED <<env, payload, remote, allowedBotLogins, requirePrAuthorIsBot,
                 skipDrafts, skipForks, commits, fetched, badCommit, decision,
                 info>>
  /\ UNCHANGED <<pbVars, cVars>>

\* await octokit.rest.pulls.createReview({...}): the call is made, then it
\* resolves or rejects
CreateReview ==
  /\ pc = "createReview"
  /\ reviews' = Append(reviews,
       [pull_number |-> payload[1].number, event |-> "APPROVE",
        body |-> ReviewBody])
  /\ \/ /\ submitted' = "ok"
        /\ pc' = Then[pc]
        /\ UNCHANGED failed
     \/ /\ \E message \in ApiErrors : Catch(message)
        /\ submitted' = "error"
  /\ UNCHANGED <<env, payload, remote, allowedBotLogins, requirePrAuthorIsBot,
                 skipDrafts, skipForks, commits, fetched, badCommit, decision,
                 info>>
  /\ UNCHANGED <<pbVars, cVars>>

Next ==
  \/ GetInputs
  \/ CheckPullRequest
  \/ DraftGate
  \/ ForkGate
  \/ AuthorGate
  \/ ListCommits
  \/ EmptyGate
  \/ ScanCommits
  \/ CreateReview

Spec == Init /\ [][Next]_vars

-----------------------------------------------------------------------------
(* parseBool on its own: any input, any default; and the three switches of *)
(* run(), read with the default true                                       *)

BoolStrings ==
  {"", " ", "true", "TRUE", " True ", "\ttrue", "1", "yes", "YES", "y", "Y\n",
   "false", "False", " FALSE", "0", "no", " NO ", "n", "N", "on", "off", "2",
   "tru", "yess", "t rue", "truefalse"}

BoolInputs == {<<>>} \cup {<<b>> : b \in BoolStrings}

WideSwitchRaws == {"", "  ", "true", "No", " 0 ", "maybe", "Y"}

InitBool ==
  /\ \E r \in WideSwitchRaws, d \in WideSwitchRaws, f \in WideSwitchRaws :
        env = Env("ghs_token", "dependabot[bot]", r, d, f)
  /\ payload = <<>>
  /\ remote = <<>>
  /\ RunIdle
  /\ pbInput \in BoolInputs
  /\ pbDefault \in BOOLEAN
  /\ pbResult = <<>>
  /\ cCommit = IdleCommit
  /\ cResult = <<>>

CallParseBool ==
  /\ pbResult = <<>>
  /\ pbResult' = <<parseBool(pbInput, pbDefault)>>
  /\ UNCHANGED <<pbInput, pbDefault>>
  /\ UNCHANGED <<runVars, cVars>>

NextBool ==
  \/ CallParseBool
  \/ GetInputs

SpecBool == InitBool /\ [][NextBool]_vars

-----------------------------------------------------------------------------
(* isAllowedBotCommit on its own: any commit, any parsed allow-list *)

CommitLogins == {<<>>, <<"">>, <<"dependabot[bot]">>, <<"human-dev">>}

CommitNames ==
  {<<>>, <<"">>, <<"dependabot[bot]">>, <<"dependabot">>, <<"Renovate">>}

CommitEmails ==
  {<<>>, <<"">>,
   <<"renovate@example.com">>,
   <<"renovate@users.noreply.github.com">>,
   <<"123+renovate@users.noreply.github.com">>,
   <<"49699333+renovate[bot]@users.noreply.github.com">>,
   <<"49699333+dependabot[bot]@users.noreply.github.com">>,
   <<"notrenovate@users.noreply.github.com">>,
   <<"555+evil-renovate@users.noreply.github.com">>,
   <<"renovate@users.noreply.github.com.example.org">>}

AllowLists ==
  {"", "renovate", "dependabot[bot]", "renovate[bot], dependabot[bot]",
   "Dependabot, renovate"}

InitCommit ==
  /\ env = Env("ghs_token", "", "", "", "")
  /\ payload = <<>>
  /\ remote = <<>>
  /\ pc = "scan"
  /\ \E l \in AllowLists : allowedBotLogins = parseList(<<l>>)
  /\ requirePrAuthorIsBot = TRUE
  /\ skipDrafts = TRUE
  /\ skipForks = TRUE
  /\ commits = <<>>
  /\ fetched = "no"
  /\ badCommit = <<>>
  /\ decision = "none"
  /\ info = <<>>
  /\ reviews = <<>>
  /\ submitted = "no"
  /\ failed = <<>>
  /\ pbInput = <<>>
  /\ pbDefault = TRUE
  /\ pbResult = <<>>
  /\ \E a \in CommitLogins, n \in CommitNames, e \in CommitEmails :
        cCommit = Commit("f00", a, n, e)
  /\ cResult = <<>>

CallIsAllowedBotCommit ==
  /\ cResult = <<>>
  /\ cResult' = <<isAllowedBotCommit(cCommit, allowedBotLogins)>>
  /\ UNCHANGED cCommit
  /\ UNCHANGED <<runVars, pbVars>>

NextCommit == CallIsAllowedBotCommit

SpecCommit == InitCommit /\ [][NextCommit]_vars

-----------------------------------------------------------------------------
(* What the properties below speak of *)

Pr == payload[1]

TrustedIdentities == {allowedBotLogins[i] : i \in DOMAIN allowedBotLogins}

\* The per-commit trust predicate as the specification words it, over a set
Trusted(c, T) ==
  \/ OrEmpty(c.author) # "" /\ OrEmpty(c.author) \in T
  \/ OrEmpty(c.name) \in T
  \/ /\ OrEmpty(c.email) # ""
     /\ \E id \in T : endsWith(OrEmpty(c.email), id \o "@users.noreply.github.com")

TokenSupplied == env["github-token"] # ""

DraftGateFires == skipDrafts /\ Pr.draft

ForkGateFires == skipForks /\ Pr.fork

AuthorGateFires ==
  requirePrAuthorIsBot /\ OrEmpty(Pr.user) \notin TrustedIdentities

EmptyGateFires == remote = <<>>

CommitGateFires ==
  \E i \in DOMAIN remote : ~Trusted(remote[i], TrustedIdentities)

Skips ==
  {"SkipDraft", "SkipFork", "SkipUntrustedAuthor", "SkipEmptyCommitList",
   "SkipUntrustedCommit"}

EarliestFailingGate ==
  IF DraftGateFires THEN "SkipDraft"
  ELSE IF ForkGateFires THEN "SkipFork"
  ELSE IF AuthorGateFires THEN "SkipUntrustedAuthor"
  ELSE IF EmptyGateFires THEN "SkipEmptyCommitList"
  ELSE IF CommitGateFires THEN "SkipUntrustedCommit"
  ELSE "Approve"

contains(s, t) ==
  \E i \in 1..(Len(s) - Len(t) + 1) : SubSeq(s, i, i + Len(t) - 1) = t

-----------------------------------------------------------------------------
(* C1: createReview is called at most once in a run, and only after a pull *)
(* request was present, neither the draft nor the fork gate fired, the PR  *)
(* author was trusted when that is required, the commit fetch succeeded    *)
(* with a non-empty list and every fetched commit passed the predicate.    *)
(* No review is submitted after a Skip or after a failed fetch.            *)
C1_ApprovalOnlyAfterAllGates ==
  /\ Len(reviews) <= 1
  /\ reviews # <<>> =>
       /\ TokenSupplied
       /\ payload # <<>>
       /\ ~(skipDrafts /\ Pr.draft)
       /\ ~(skipForks /\ Pr.fork)
       /\ requirePrAuthorIsBot => OrEmpty(Pr.user) \in TrustedIdentities
       /\ fetched = "ok"
       /\ commits = remote
       /\ commits # <<>>
       /\ \A i \in DOMAIN commits : Trusted(commits[i], TrustedIdentities)
       /\ decision = "Approve"
  /\ decision \in Skips \cup {"NoPullRequest"} => reviews = <<>>
  /\ fetched = "error" => reviews = <<>>

C1_Witness ==
  /\ pc = "done"
  /\ Len(reviews) = 1
  /\ submitted = "ok"
  /\ Len(commits) = 2

(* C2: the gates are evaluated in the order draft, fork, PR author, empty  *)
(* commit list, per-commit scan; a run that ends with an outcome ends with *)
(* the Skip of the earliest gate that fails (Approve when none fails), and *)
(* a run that ends without one failed before any gate fired.               *)
C2_FirstFailingGateWins ==
  pc = "done" /\ TokenSupplied /\ payload # <<>> =>
    /\ decision # "none" => decision = EarliestFailingGate
    /\ decision = "none" =>
         /\ fetched = "error"
         /\ ~DraftGateFires /\ ~ForkGateFires /\ ~AuthorGateFires
    /\ DraftGateFires /\ ForkGateFires => decision = "SkipDraft"

C2_Witness ==
  /\ pc = "done"
  /\ payload # <<>>
  /\ Pr.draft /\ Pr.fork
  /\ skipDrafts /\ skipForks
  /\ decision = "SkipDraft"

(* C3: core.setFailed is called exactly when the github-token is missing,  *)
(* the commit fetch fails or the review submission fails; every skip, the  *)
(* exit without a pull request and a successful approval leave the run     *)
(* unmarked.                                                               *)
C3_FailedIffError ==
  /\ failed # <<>> <=>
       \/ pc # "start" /\ ~TokenSupplied
       \/ fetched = "error"
       \/ submitted = "error"
  /\ Len(failed) <= 1
  /\ pc = "done" /\ decision \in Skips \cup {"NoPullRequest"} => failed = <<>>
  /\ pc = "done" /\ decision = "Approve" /\ submitted = "ok" => failed = <<>>

C3_Witness ==
  /\ pc = "done"
  /\ decision = "Approve"
  /\ submitted = "error"
  /\ failed # <<>>

(* C6: when the scan finds a commit that fails the predicate, the reported *)
(* commit is the first failing one of the fetched list: every commit       *)
(* before it passes, and the log line carries its sha.                     *)
C6_FirstFailingCommitReported ==
  /\ decision = "SkipUntrustedCommit" =>
       \E i \in DOMAIN commits :
         /\ ~Trusted(commits[i], TrustedIdentities)
         /\ \A j \in 1..(i - 1) : Trusted(commits[j], TrustedIdentities)
         /\ badCommit = <<commits[i]>>
         /\ info[Len(info)] =
              "Found commit not authored by allowed bots (" \o commits[i].sha
                \o "); not auto-approving."
  /\ /\ decision \in {"Approve", "SkipUntrustedCommit"}
     /\ \E i \in DOMAIN commits : ~Trusted(commits[i], TrustedIdentities)
     => decision = "SkipUntrustedCommit"

C6_Witness ==
  /\ decision = "SkipUntrustedCommit"
  /\ Len(commits) = 2
  /\ ~Trusted(commits[2], TrustedIdentities)
  /\ commits[1].sha # commits[2].sha
  /\ badCommit = <<commits[1]>>

(* C7, as claimed: a snapshot with no commits ends in SkipEmptyCommitList  *)
(* whatever its other fields and the policy switches are.                  *)
C7_EmptyListAlwaysSkipEmpty ==
  pc = "done" /\ failed = <<>> /\ payload # <<>> /\ remote = <<>> =>
    decision = "SkipEmptyCommitList"

(* C7, amended: with no commits no review is ever submitted and the        *)
(* outcome is never Approve; the outcome is SkipEmptyCommitList exactly    *)
(* when none of the draft, fork and PR-author gates fires and the fetch    *)
(* succeeds, and the Skip of the earliest of those gates otherwise.        *)
C7_EmptyListNeverApproved ==
  payload # <<>> /\ remote = <<>> =>
    /\ reviews = <<>>
    /\ decision # "Approve"
    /\ pc = "done" /\ failed = <<>> =>
         /\ decision = "SkipEmptyCommitList" <=>
              ~DraftGateFires /\ ~ForkGateFires /\ ~AuthorGateFires
         /\ decision =
              IF DraftGateFires THEN "SkipDraft"
              ELSE IF ForkGateFires THEN "SkipFork"
              ELSE IF AuthorGateFires THEN "SkipUntrustedAuthor"
              ELSE "SkipEmptyCommitList"

C7_Witness ==
  /\ pc = "done"
  /\ payload # <<>>
  /\ remote = <<>>
  /\ fetched = "ok"
  /\ decision = "SkipEmptyCommitList"

(* C8, as claimed: on Approve the review is submitted once, for the pull   *)
(* request's number, with event APPROVE and a message that states how many *)
(* commits were checked.                                                   *)
C8_ReviewMessageStatesCount ==
  pc = "done" /\ decision = "Approve" =>
    /\ Len(reviews) = 1
    /\ reviews[1].pull_number = Pr.number
    /\ reviews[1].event = "APPROVE"
    /\ contains(reviews[1].body, ToString(Len(commits)))

(* C8, amended: on Approve the review is submitted once, for the pull      *)
(* request's number, with event APPROVE and the fixed message, which does  *)
(* not state the number of commits; that number is stated in the log line  *)
(* written just before the submission.                                     *)
C8_ReviewFixedMessage ==
  pc = "done" /\ decision = "Approve" =>
    /\ Len(reviews) = 1
    /\ reviews[1] =
         [pull_number |-> Pr.number, event |-> "APPROVE",
          body |-> "Auto-approved: all commits on this PR were authored by allowed bots."]
    /\ ~contains(reviews[1].body, ToString(Len(commits)))
    /\ contains(info[Len(info)],
                "All " \o ToString(Len(commits)) \o " commit(s) are from allowed bots")

C8_Witness ==
  /\ pc = "done"
  /\ decision = "Approve"
  /\ submitted = "ok"
  /\ Len(commits) = 2
  /\ Pr.number = 42

(* C10: with an empty allow-list (the input absent, empty, or only commas  *)
(* and blanks) no run submits a review: when the PR author must be trusted *)
(* the author gate skips, and otherwise a non-empty commit list fails at   *)
(* its first commit.                                                       *)
C10_EmptyAllowListNeverApproves ==
  /\ pc # "start" /\ TokenSupplied
       /\ env["allowed-bot-logins"] \in {"", " , ,"}
     => allowedBotLogins = <<>>
  /\ pc # "start" /\ TokenSupplied /\ allowedBotLogins = <<>> =>
       /\ reviews = <<>>
       /\ decision # "Approve"
       /\ pc # "createReview"
       /\ decision \in {"SkipEmptyCommitList", "SkipUntrustedCommit"} =>
            ~requirePrAuthorIsBot
       /\ pc = "done" /\ payload # <<>> /\ requirePrAuthorIsBot =>
            decision \in {"SkipDraft", "SkipFork", "SkipUntrustedAuthor"}
       /\ pc = "done" /\ fetched = "ok" /\ commits # <<>> =>
            /\ decision = "SkipUntrustedCommit"
            /\ badCommit = <<commits[1]>>

C10_Witness ==
  /\ pc = "done"
  /\ env["allowed-bot-logins"] = " , ,"
  /\ allowedBotLogins = <<>>
  /\ ~requirePrAuthorIsBot
  /\ decision = "SkipUntrustedCommit"
  /\ Len(commits) = 2

-----------------------------------------------------------------------------
(* C4: isAllowedBotCommit returns true exactly when the commit's login is  *)
(* a non-empty member of the allow-list, or its name equals a member, or   *)
(* its email is non-empty and ends with <member>@users.noreply.github.com. *)
(* A name match alone suffices; renovate@example.com does not match        *)
(* "renovate".                                                             *)
C4_PredicateIsThreeWayOr ==
  cResult # <<>> =>
    /\ cResult[1] = Trusted(cCommit, TrustedIdentities)
    /\ /\ cCommit.name = <<"dependabot[bot]">>
       /\ allowedBotLogins = <<"dependabot[bot]">>
       => cResult[1] = TRUE
    /\ /\ OrEmpty(cCommit.author) = ""
       /\ OrEmpty(cCommit.name) = ""
       /\ cCommit.email = <<"renovate@example.com">>
       /\ allowedBotLogins = <<"renovate">>
       => cResult[1] = FALSE

C4_Witness ==
  /\ cResult = <<TRUE>>
  /\ OrEmpty(cCommit.author) = ""
  /\ cCommit.name = <<"dependabot[bot]">>
  /\ OrEmpty(cCommit.email) = ""
  /\ allowedBotLogins = <<"dependabot[bot]">>

\* The identity a no-reply address names: what precedes the suffix, without
\* a leading "<id>+"; no identity for any other address
NoReplyIdentity(email) ==
  IF ~endsWith(email, "@users.noreply.github.com") THEN {}
  ELSE LET local == SubSeq(email, 1, Len(email) - Len("@users.noreply.github.com"))
           parts == split(local, "+")
       IN  IF Len(parts) = 1 THEN {local}
           ELSE {SubSeq(local, Len(parts[1]) + 2, Len(local))}

(* C5: a commit judged trusted has a login that is a member of the         *)
(* allow-list, or a name that is a member, or a no-reply email whose       *)
(* identity (the whole local part, or the part after "<id>+") is exactly a *)
(* member.                                                                 *)
C5_TrustedOnlyByListedIdentity ==
  cResult = <<TRUE>> =>
    \/ OrEmpty(cCommit.author) \in TrustedIdentities
    \/ OrEmpty(cCommit.name) \in TrustedIdentities
    \/ NoReplyIdentity(OrEmpty(cCommit.email)) \cap TrustedIdentities # {}

(* C9: parseBool returns true when the lower-cased, trimmed input is one   *)
(* of true, 1, yes, y; false when it is one of false, 0, no, n; and the    *)
(* default for an absent, empty, blank or unrecognised input. The three    *)
(* switches of run() are always booleans and are true unless their input   *)
(* spells a falsy value.                                                   *)
C9_ParseBoolTotal ==
  /\ pbResult # <<>> =>
       LET r == pbResult[1]
           v == IF pbInput = <<>> THEN "" ELSE trimEnd(trimStart(toLowerCase(pbInput[1])))
       IN  /\ r \in BOOLEAN
           /\ v \in {"true", "1", "yes", "y"} => r = TRUE
           /\ v \in {"false", "0", "no", "n"} => r = FALSE
           /\ v \notin {"true", "1", "yes", "y", "false", "0", "no", "n"} =>
                r = pbDefault
           /\ pbInput \in {<<"TRUE">>, <<" True ">>, <<"\ttrue">>, <<"YES">>,
                            <<"Y\n">>, <<"1">>} => r = TRUE
           /\ pbInput \in {<<"False">>, <<" FALSE">>, <<" NO ">>, <<"N">>,
                            <<"0">>} => r = FALSE
           /\ pbInput \in {<<>>, <<"">>, <<" ">>, <<"on">>, <<"off">>, <<"2">>,
                            <<"tru">>, <<"t rue">>, <<"truefalse">>} =>
                r = pbDefault
  /\ pc # "start" =>
       /\ {requirePrAuthorIsBot, skipDrafts, skipForks} \subseteq BOOLEAN
       /\ requirePrAuthorIsBot =
            (env["require-pr-author-is-bot"] \notin {"No", " 0 "})
       /\ skipDrafts = (env["skip-drafts"] \notin {"No", " 0 "})
       /\ skipForks = (env["skip-forks"] \notin {"No", " 0 "})

C9_Witness ==
  /\ pbResult = <<TRUE>>
  /\ pbInput = <<" True ">>
  /\ pbDefault = FALSE
  /\ pc # "start"
  /\ env["skip-drafts"] = "maybe"
  /\ skipDrafts = TRUE
  /\ env["skip-forks"] = " 0 "
  /\ skipForks = FALSE

====
